---- MODULE Spec2Model ----
(***************************************************************************)
(* Frequency response data (FRD) objects of control/frdata.py, their       *)
(* construction, algebra, feedback interconnection and evaluation,         *)
(* modelled as a session in which a caller constructs FRD objects and      *)
(* applies the operators of the class to them.                             *)
(*                                                                         *)
(* Representation.                                                         *)
(*  - A frequency is an integer: the frequency in units of half the        *)
(*    matching tolerance FRD._epsw, so that _epsw is 2 units and two       *)
(*    frequencies one unit apart are different floats that still match     *)
(*    within the tolerance.                                                *)
(*  - A response value is an exact rational <<n, d>> (d > 0, lowest        *)
(*    terms); <<0, 0>> stands for a complex value with a nan component,    *)
(*    which numpy's complex arithmetic propagates through + - * /.         *)
(*  - fresp is a sequence (outputs) of sequences (inputs) of sequences     *)
(*    (frequencies): fresp[i][j][k].                                       *)
(*  - A numpy array that is shared between objects and sorted in place     *)
(*    lives in omegaHeap; an object holds the index of its omega array.    *)
(***************************************************************************)
EXTENDS Integers, Sequences, FiniteSets, TLC

VARIABLES omegaHeap, objs, born, last

vars == <<omegaHeap, objs, born, last>>

\* Bound of the exploration: FRD objects alive in one session.
MaxObjs == 3

\* FRD._epsw = 1e-8, in frequency units of 0.5e-8.
_epsw == 2

-----------------------------------------------------------------------------
(* Exact arithmetic on response values *)

Abs(x) == IF x < 0 THEN -x ELSE x

RECURSIVE Gcd(_, _)
Gcd(a, b) == IF b = 0 THEN a ELSE Gcd(b, a % b)

NaN == <<0, 0>>

IsNaN(x) == x[2] = 0

Norm(n, d) ==
    LET g == Gcd(Abs(n), Abs(d))
        s == IF d < 0 THEN -1 ELSE 1
    IN  <<(s * n) \div g, (s * d) \div g>>

Q(n) == <<n, 1>>

QAdd(x, y) ==
    IF IsNaN(x) \/ IsNaN(y) THEN NaN
    ELSE Norm(x[1] * y[2] + y[1] * x[2], x[2] * y[2])

QNeg(x) == IF IsNaN(x) THEN NaN ELSE <<-x[1], x[2]>>

QMul(x, y) ==
    IF IsNaN(x) \/ IsNaN(y) THEN NaN
    ELSE Norm(x[1] * y[1], x[2] * y[2])

\* numpy complex division: a zero divisor gives inf/nan components (a
\* RuntimeWarning, not an exception).
QDiv(x, y) ==
    IF IsNaN(x) \/ IsNaN(y) \/ y[1] = 0 THEN NaN
    ELSE Norm(x[1] * y[2], x[2] * y[1])

-----------------------------------------------------------------------------
(* numpy helpers *)

RECURSIVE Insert(_, _)
Insert(x, s) ==
    IF s = <<>> THEN <<x>>
    ELSE IF x <= Head(s) THEN <<x>> \o s
    ELSE <<Head(s)>> \o Insert(x, Tail(s))

\* numpy.sort / ndarray.sort: ascending, duplicates kept.
RECURSIVE NpSort(_)
NpSort(s) == IF s = <<>> THEN <<>> ELSE Insert(Head(s), NpSort(Tail(s)))

RECURSIVE SumSeq(_)
SumSeq(s) == IF s = <<>> THEN 0 ELSE Head(s) + SumSeq(Tail(s))

\* fresp.shape
NOut(T) == Len(T)
NIn(T) == Len(T[1])
NFreq(T) == Len(T[1][1])

\* fresp[:, :, 0] taken whatever the frequency index.
SliceAtFirst(T, k) == [i \in 1..NOut(T) |-> [j \in 1..NIn(T) |-> T[i][j][1]]]

\* The matrix fresp[:, :, k].
Slice(T, k) == [i \in 1..NOut(T) |-> [j \in 1..NIn(T) |-> T[i][j][k]]]

\* The tensor whose slice at k is M[k] (each M[k] an outputs x inputs matrix).
Stack(M, p, m) ==
    [i \in 1..p |-> [j \in 1..m |-> [k \in 1..Len(M) |-> M[k][i][j]]]]

\* ones((outputs, inputs, n)) * c
Const(p, m, n, c) == [i \in 1..p |-> [j \in 1..m |-> [k \in 1..n |-> c]]]

\* A @ B for matrices given as sequences of rows.
MatMul(A, B) ==
    [i \in 1..Len(A) |-> [j \in 1..Len(B[1]) |->
        LET RECURSIVE Dot(_)
            Dot(l) == IF l = 0 THEN Q(0)
                      ELSE QAdd(Dot(l - 1), QMul(A[i][l], B[l][j]))
        IN  Dot(Len(B))]]

MatAdd(A, B) ==
    [i \in 1..Len(A) |-> [j \in 1..Len(A[1]) |-> QAdd(A[i][j], B[i][j])]]

\* numpy.eye(n)
Eye(n) == [i \in 1..n |-> [j \in 1..n |-> IF i = j THEN Q(1) ELSE Q(0)]]

\* The matrix without row r and column c.
Minor(A, r, c) ==
    [i \in 1..(Len(A) - 1) |-> [j \in 1..(Len(A) - 1) |->
        A[IF i < r THEN i ELSE i + 1][IF j < c THEN j ELSE j + 1]]]

RECURSIVE Det(_)
Det(A) ==
    IF Len(A) = 1 THEN A[1][1]
    ELSE LET RECURSIVE Expand(_)
             Expand(c) ==
                 IF c = 0 THEN Q(0)
                 ELSE QAdd(Expand(c - 1),
                           QMul(IF c % 2 = 1 THEN A[1][c] ELSE QNeg(A[1][c]),
                                Det(Minor(A, 1, c))))
         IN  Expand(Len(A))

\* numpy.linalg.inv of one square matrix with a non-zero determinant.
MatInv(A) ==
    LET n == Len(A)
        d == Det(A)
        Cof(i, j) ==
            LET c == IF n = 1 THEN Q(1) ELSE Det(Minor(A, i, j))
            IN  IF (i + j) % 2 = 0 THEN c ELSE QNeg(c)
    IN  [i \in 1..n |-> [j \in 1..n |-> QDiv(Cof(j, i), d)]]

-----------------------------------------------------------------------------
(* What the caller passes in *)

\* Frequency vectors given to the constructor: ascending, not in ascending
\* order, within the tolerance of the first without being equal to it, with
\* a repeated frequency, and shorter.
Grids == {<<0, 2, 4, 6>>, <<2, 0, 4, 6>>, <<1, 2, 4, 6>>, <<0, 0, 4, 6>>, <<0, 2>>}

\* An integer array as a response tensor.
Tensor(T) ==
    [i \in 1..Len(T) |-> [j \in 1..Len(T[1]) |->
        [k \in 1..Len(T[1][1]) |-> Q(T[i][j][k])]]]

\* Response data given to the constructor: 1-D lists (SISO), 3-D arrays of
\* shapes (1,2,4), (2,1,4) and (2,2,4), and a 2-D array.
Responses ==
    { [ndim |-> 1, data |-> <<1, 2, 3, 4>>],
      [ndim |-> 1, data |-> <<1, 2>>],
      [ndim |-> 3, data |-> << <<<<1, 2, 1, 3>>, <<2, 1, 1, 2>>>> >>],
      [ndim |-> 3, data |-> << <<<<1, 1, 2, 1>>>>, <<<<2, 3, 1, 1>>>> >>],
      [ndim |-> 3, data |-> << <<<<1, 2, 1, 1>>, <<2, 0, 1, 3>>>>,
                               <<<<0, 1, 2, 1>>, <<1, 1, 1, 2>>>> >>],
      [ndim |-> 2, data |-> << <<1, 2, 3, 4>> >>] }

\* Response arguments of any dimension: those above and a scalar.
RespArgs ==
    {[kind |-> "array", ndim |-> r.ndim, data |-> r.data] : r \in Responses}
        \cup {[kind |-> "array", ndim |-> 0, data |-> 3]}

\* Frequency arguments of any dimension: a scalar, 1-D vectors, a 2-D array.
FreqArgs ==
    { [kind |-> "array", ndim |-> 0, data |-> 2],
      [kind |-> "array", ndim |-> 1, data |-> <<0, 2, 4, 6>>],
      [kind |-> "array", ndim |-> 1, data |-> <<0, 2>>],
      [kind |-> "array", ndim |-> 2, data |-> << <<0, 2, 4, 6>> >>] }

\* Numeric scalars used as operands.
Scalars == {-1, 2}

\* Constant matrices (2-D arrays) used as operands.
Matrices == { << <<2>> >>, << <<1, 1>>, <<0, 1>> >> }

\* Analytic SISO continuous-time models used as operands and sampled by the
\* constructor: G(s) = g0 + g2 s^2, which is real on the imaginary axis.
LTIs == { [g0 |-> 1, g2 |-> 0], [g0 |-> 2, g2 |-> 1] }

\* G(j w) for an analytic model G.
LtiResp(sys, w) == Q(sys.g0 - sys.g2 * w * w)

\* Exponents given to **: integers and a float.
Exponents ==
    {[int |-> TRUE, n |-> n] : n \in {-2, -1, 0, 1, 2}} \cup {[int |-> FALSE, n |-> 0]}

\* Requests to eval: a scalar or a 1-D list of points <<re, im>>.
Requests ==
    { [scalar |-> TRUE, pts |-> <<<<0, 0>>>>],
      [scalar |-> TRUE, pts |-> <<<<2, 0>>>>],
      [scalar |-> TRUE, pts |-> <<<<3, 0>>>>],
      [scalar |-> TRUE, pts |-> <<<<2, 1>>>>],
      [scalar |-> TRUE, pts |-> <<<<2, -1>>>>],
      [scalar |-> FALSE, pts |-> <<<<0, 0>>, <<2, 0>>>>],
      [scalar |-> FALSE, pts |-> <<<<2, 0>>, <<0, 0>>>>],
      [scalar |-> FALSE, pts |-> <<<<0, 0>>, <<0, 0>>>>],
      [scalar |-> FALSE, pts |-> <<<<0, 0>>, <<3, 0>>>>],
      [scalar |-> FALSE, pts |-> <<<<0, 0>>, <<0, -1>>>>] }

\* Arguments s of a call frd(s): a scalar or a 1-D list of complex points
\* <<re, im>>.
Points ==
    { [scalar |-> TRUE, pts |-> <<<<0, 0>>>>],
      [scalar |-> TRUE, pts |-> <<<<0, 2>>>>],
      [scalar |-> TRUE, pts |-> <<<<0, 3>>>>],
      [scalar |-> TRUE, pts |-> <<<<2, 2>>>>],
      [scalar |-> TRUE, pts |-> <<<<-1, 2>>>>],
      [scalar |-> FALSE, pts |-> <<<<0, 0>>, <<0, 2>>>>],
      [scalar |-> FALSE, pts |-> <<<<0, 2>>, <<0, 0>>>>],
      [scalar |-> FALSE, pts |-> <<<<0, 0>>, <<0, 3>>>>],
      [scalar |-> FALSE, pts |-> <<<<0, 0>>, <<-1, 2>>>>],
      [scalar |-> FALSE, pts |-> <<<<0, 0>>, <<1, 3>>>>] }

-----------------------------------------------------------------------------
(* FRD objects *)

NoOperand == [kind |-> "none"]

Idle == [op |-> "none", self |-> 0, other |-> NoOperand, status |-> "ok",
         err |-> "none", warn |-> FALSE, res |-> 0, out |-> <<>>]

Init ==
    /\ omegaHeap = <<>>
    /\ objs = <<>>
    /\ born = <<>>
    /\ last = Idle

\* An FRD as the values it holds under heap h.
View(o, h) ==
    [omega |-> h[o.omega], fresp |-> o.fresp, ninputs |-> o.ninputs,
     noutputs |-> o.noutputs, smooth |-> o.smooth, dt |-> o.dt,
     squeeze |-> o.squeeze, return_magphase |-> o.return_magphase,
     _return_singvals |-> o._return_singvals]

\* The timebase of an FRD: None, 0 (continuous time) or a positive time step.
None == -1

Timebases == {None, 0, 1, 2}

\* common_timebase(dt1, dt2): the one that is given if the other is None,
\* their common value if they are equal, a failure otherwise.
common_timebase(dt1, dt2) ==
    IF dt1 = None THEN [status |-> "ok", dt |-> dt2]
    ELSE IF dt2 = None \/ dt1 = dt2 THEN [status |-> "ok", dt |-> dt1]
    ELSE [status |-> "ValueError", dt |-> None]

\* The object FRD(fresp, omega, smooth=...) builds from a 3-D tensor: omega
\* is copied as given, the signal counts default to the tensor's shape.
NewFRD(fresp, omega, smooth) ==
    [omega |-> omega, fresp |-> fresp, ninputs |-> NIn(fresp),
     noutputs |-> NOut(fresp), smooth |-> smooth,
     dt |-> common_timebase(None, None).dt,
     squeeze |-> "None", return_magphase |-> FALSE, _return_singvals |-> FALSE]

Fail(status, err) == [status |-> status, err |-> err, frd |-> <<>>]

Ok(frd) == [status |-> "ok", err |-> "none", frd |-> frd]

\* splprep(u=omega, x=..., s=0.0) with its default degree 3, called once per
\* entry of the tensor when smooth is set: it needs more points than the
\* degree and a strictly increasing parameter vector u.
Splprep(omega) ==
    IF Len(omega) <= 3 THEN "TypeError"
    ELSE IF \E k \in 1..(Len(omega) - 1) : omega[k] >= omega[k + 1] THEN "ValueError"
    ELSE "ok"

\* FRD(fresp, omega, smooth=...) for a 3-D tensor fresp of matching length.
FRD(fresp, omega, smooth) ==
    IF smooth /\ Splprep(omega) # "ok" THEN Fail(Splprep(omega), "splprep")
    ELSE Ok(NewFRD(fresp, omega, smooth))

\* The operands a binary operator can be given: an FRD of the session, a
\* numeric scalar, a constant matrix, an analytic model, a string.
Operands ==
    {[kind |-> "frd", ref |-> i] : i \in 1..Len(objs)}
        \cup {[kind |-> "scalar", val |-> c] : c \in Scalars}
        \cup {[kind |-> "matrix", val |-> M] : M \in Matrices}
        \cup {[kind |-> "lti", val |-> g] : g \in LTIs}
        \cup {[kind |-> "str"]}

\* isinstance(sys, FRD): an FRD of the session or a temporary one.
IsFRD(sys) == sys.kind \in {"frd", "tmp"}

IsScalar(sys) == sys.kind = "scalar"

OperandView(sys, h) == IF sys.kind = "frd" THEN View(objs[sys.ref], h) ELSE sys.val

-----------------------------------------------------------------------------
(* FrequencyResponseData.__init__ *)

\* The inputs= / outputs= keyword: not given, a count, or a list of names.
NotGiven == [kind |-> "default"]

SignalArgs == {NotGiven, [kind |-> "count", n |-> 2], [kind |-> "names", names |-> <<"u">>]}

\* The number of signals InputOutputSystem.__init__ records for a signal
\* argument: the argument if it is a count, the number of names if it is a
\* list, the default (the tensor's dimension) if it is not given.
ProcessSignals(arg, default) ==
    IF arg.kind = "count" THEN arg.n
    ELSE IF arg.kind = "names" THEN Len(arg.names)
    ELSE default

\* FRD(response, omega, smooth=..., inputs=..., outputs=...): the response
\* and frequency vector as given. No sorting, no check of the order or sign
\* of the frequencies, no check of the signal counts against the tensor.
InitArray(resp, w, smooth, inputs, outputs) ==
    IF resp.ndim = 2 \/ (resp.ndim = 1 /\ Len(resp.data) # Len(w))
       \/ (resp.ndim = 3 /\ NFreq(resp.data) # Len(w))
    THEN Fail("TypeError", "bad_shape")
    ELSE LET fresp == IF resp.ndim = 1
                      THEN <<<<[k \in 1..Len(w) |-> Q(resp.data[k])]>>>>
                      ELSE Tensor(resp.data)
             r == FRD(fresp, w, smooth)
         IN  IF r.status # "ok" THEN r
             ELSE Ok([r.frd EXCEPT !.ninputs = ProcessSignals(inputs, NIn(fresp)),
                                   !.noutputs = ProcessSignals(outputs, NOut(fresp))])

\* FRD(sys, omega, smooth=...) for an analytic model: omega is sorted, the
\* model is sampled at s = j omega.
InitLTI(sys, w, smooth) ==
    LET omega == NpSort(w)
        r == FRD(<<<<[k \in 1..Len(omega) |-> LtiResp(sys, omega[k])]>>>>, omega, smooth)
    IN  IF r.status # "ok" THEN r
        ELSE Ok([r.frd EXCEPT !.dt = common_timebase(None, 0).dt])

\* FRD(response, omega, squeeze=..., return_magphase=..., _return_singvals=...)
InitFlags(resp, w, squeeze, return_magphase, singvals) ==
    LET r == InitArray(resp, w, FALSE, NotGiven, NotGiven)
    IN  IF r.status # "ok" THEN r
        ELSE Ok([r.frd EXCEPT !.squeeze = squeeze,
                              !.return_magphase = return_magphase,
                              !._return_singvals = singvals])

\* FRD(response, omega, dt=...)
InitDt(resp, w, dt) ==
    LET r == InitArray(resp, w, FALSE, NotGiven, NotGiven)
    IN  IF r.status # "ok" THEN r
        ELSE Ok([r.frd EXCEPT !.dt = common_timebase(dt, None).dt])

\* numpy.array(a, ndmin=1): a scalar becomes a 1-D array of one element.
AtLeast1d(a) ==
    IF a.ndim = 0 THEN [a EXCEPT !.ndim = 1, !.data = <<a.data>>] ELSE a

\* _process_iosys_keywords(kwargs, defaults, end=True): a keyword that is
\* left over when every known keyword has been taken is refused.
_process_iosys_keywords(unknown) ==
    IF unknown THEN Fail("TypeError", "unrecognized_keyword") ELSE Ok(<<>>)

\* __init__ without the test omega.ndim != 1.
InitSkipsOmegaNdim(args, unknown, smooth, os, h) ==
    IF Len(args) = 2 THEN
        IF args[1].kind = "lti" THEN
            IF _process_iosys_keywords(unknown).status # "ok"
            THEN _process_iosys_keywords(unknown)
            ELSE InitLTI(args[1].val, args[2].data, smooth)
        ELSE
            LET resp == AtLeast1d(args[1])
                omega == AtLeast1d(args[2])
                r == InitArray(resp, omega.data, smooth, NotGiven, NotGiven)
            IN  IF r.err = "bad_shape" THEN r
                ELSE IF _process_iosys_keywords(unknown).status # "ok"
                THEN _process_iosys_keywords(unknown)
                ELSE r
    ELSE IF Len(args) = 1 THEN
        IF args[1].kind # "frd" THEN Fail("TypeError", "not_frd")
        ELSE IF _process_iosys_keywords(unknown).status # "ok"
        THEN _process_iosys_keywords(unknown)
        ELSE FRD(os[args[1].ref].fresp, h[os[args[1].ref].omega], smooth)
    ELSE Fail("ValueError", "arg_count")

\* FRD(*args, smooth=..., **kwargs): the positional arguments are examined
\* first, then the keywords, then the splines are fitted. os are the FRDs
\* of the session, h their omega arrays.
__init__(args, unknown, smooth, os, h) ==
    IF Len(args) = 2 THEN
        IF args[1].kind = "lti" THEN
            IF _process_iosys_keywords(unknown).status # "ok"
            THEN _process_iosys_keywords(unknown)
            ELSE InitLTI(args[1].val, args[2].data, smooth)
        ELSE
            LET resp == AtLeast1d(args[1])
                omega == AtLeast1d(args[2])
                r == InitArray(resp, omega.data, smooth, NotGiven, NotGiven)
            IN  IF omega.ndim # 1 THEN Fail("TypeError", "bad_shape")
                ELSE IF r.err = "bad_shape" THEN r
                ELSE IF _process_iosys_keywords(unknown).status # "ok"
                THEN _process_iosys_keywords(unknown)
                ELSE r
    ELSE IF Len(args) = 1 THEN
        IF args[1].kind # "frd" THEN Fail("TypeError", "not_frd")
        ELSE IF _process_iosys_keywords(unknown).status # "ok"
        THEN _process_iosys_keywords(unknown)
        ELSE FRD(os[args[1].ref].fresp, h[os[args[1].ref].omega], smooth)
    ELSE Fail("ValueError", "arg_count")

-----------------------------------------------------------------------------
(* _convert_to_frd *)

\* omega.sort(): the array at ref sorted in place.
SortInPlace(h, ref) == [h EXCEPT ![ref] = NpSort(@)]

\* _convert_to_frd(sys, omega, inputs, outputs) for a sys that is not a
\* system: a number is spread over outputs x inputs entries; a 2-D array
\* gives its own shape; anything else cannot be unpacked into a shape. The
\* conversion of an array is tried, and any exception it raises, that of
\* the spline fit included, is replaced by the TypeError.
ConvertConstant(sys, omega, inputs, outputs) ==
    IF sys.kind = "scalar" THEN
        FRD(Const(outputs, inputs, Len(omega), Q(sys.val)), omega, TRUE)
    ELSE IF sys.kind = "matrix" THEN
        LET r == FRD([i \in 1..Len(sys.val) |-> [j \in 1..Len(sys.val[1]) |->
                         [k \in 1..Len(omega) |-> Q(sys.val[i][j])]]],
                     omega, TRUE)
        IN  IF r.status = "ok" THEN r ELSE Fail("TypeError", "cant_convert")
    ELSE Fail("TypeError", "cant_convert")

\* _convert_to_frd(sys, omega=self.omega) with the default inputs=1,
\* outputs=1: the converted operand and the heap the call leaves.
_convert_to_frd(sys, self, h) ==
    IF IsFRD(sys) THEN
        LET h1 == SortInPlace(h, self.omega)
            omega == h1[self.omega]
            other == OperandView(sys, h1)
        IN  IF Len(omega) = Len(other.omega)
               /\ \A k \in 1..Len(omega) : Abs(omega[k] - other.omega[k]) < _epsw
            THEN Ok(other) @@ [heap |-> h1]
            ELSE Fail("NotImplementedError", "grid_mismatch") @@ [heap |-> h1]
    ELSE IF sys.kind = "lti" THEN
        LET omega == NpSort(h[self.omega])
        IN  FRD(<<<<[k \in 1..Len(omega) |-> LtiResp(sys.val, omega[k])]>>>>,
                omega, TRUE) @@ [heap |-> h]
    ELSE ConvertConstant(sys, h[self.omega], 1, 1) @@ [heap |-> h]

-----------------------------------------------------------------------------
(* Algebra *)

\* -T
TNeg(T) ==
    [i \in 1..NOut(T) |-> [j \in 1..NIn(T) |-> [k \in 1..NFreq(T) |-> QNeg(T[i][j][k])]]]

\* T * c for a number c
TScale(T, c) ==
    [i \in 1..NOut(T) |-> [j \in 1..NIn(T) |-> [k \in 1..NFreq(T) |-> QMul(T[i][j][k], c)]]]

\* A + B, elementwise
TAdd(A, B) ==
    [i \in 1..NOut(A) |-> [j \in 1..NIn(A) |->
        [k \in 1..NFreq(A) |-> QAdd(A[i][j][k], B[i][j][k])]]]

\* B / A where A / B is meant.
TDivSwapped(A, B) ==
    [i \in 1..NOut(A) |-> [j \in 1..NIn(A) |->
        [k \in 1..NFreq(A) |-> QDiv(B[i][j][k], A[i][j][k])]]]

\* A / B, elementwise
TDiv(A, B) ==
    [i \in 1..NOut(A) |-> [j \in 1..NIn(A) |->
        [k \in 1..NFreq(A) |-> QDiv(A[i][j][k], B[i][j][k])]]]

NoWarn == [warn |-> FALSE]

\* -self
__neg__(self) == NewFRD(TNeg(self.fresp), self.omega, FALSE)

\* -other for an operand of any type.
Negated(other, h) ==
    IF IsFRD(other) THEN
        [status |-> "ok", val |-> [kind |-> "tmp", val |-> __neg__(OperandView(other, h))]]
    ELSE IF other.kind = "scalar" THEN
        [status |-> "ok", val |-> [kind |-> "scalar", val |-> -other.val]]
    ELSE IF other.kind = "matrix" THEN
        [status |-> "ok",
         val |-> [kind |-> "matrix",
                  val |-> [i \in 1..Len(other.val) |->
                              [j \in 1..Len(other.val[1]) |-> -other.val[i][j]]]]]
    ELSE IF other.kind = "lti" THEN
        [status |-> "ok",
         val |-> [kind |-> "lti", val |-> [g0 |-> -other.val.g0, g2 |-> -other.val.g2]]]
    ELSE [status |-> "TypeError", val |-> other]

\* self + other, for self an FRD of the session.
__add__(self, other, h) ==
    LET warn == IsFRD(other)
                /\ LET a == OperandView(other, h).omega
                       b == h[self.omega]
                   IN  Len(a) # Len(b) \/ \E k \in 1..Len(a) : a[k] # b[k]
        c == _convert_to_frd(other, self, h)
    IN  [warn |-> warn] @@
        (IF c.status # "ok" THEN c
         ELSE IF self.ninputs # c.frd.ninputs \/ self.noutputs # c.frd.noutputs
         THEN Fail("ValueError", "size_mismatch") @@ [heap |-> c.heap]
         ELSE FRD(TAdd(self.fresp, c.frd.fresp), c.frd.omega, FALSE)
              @@ [heap |-> c.heap])

\* self - other
__sub__(self, other, h) ==
    LET n == Negated(other, h)
    IN  IF n.status # "ok"
        THEN NoWarn @@ Fail("TypeError", "bad_operand") @@ [heap |-> h]
        ELSE __add__(self, n.val, h)

\* The per-frequency products A[:, :, k] @ B[:, :, k].
SeriesProduct(A, B) ==
    Stack([k \in 1..NFreq(A) |-> MatMul(Slice(A, k), Slice(B, k))], NOut(A), NIn(B))

\* __mul__ raising the error of __truediv__ on a size mismatch.
MulRaisesNotImplemented(self, other, h) ==
    NoWarn @@
    (IF IsScalar(other) THEN
        FRD(TScale(self.fresp, Q(other.val)), h[self.omega], self.smooth)
            @@ [heap |-> h]
     ELSE
        LET c == _convert_to_frd(other, self, h)
        IN  IF c.status # "ok" THEN c
            ELSE IF self.ninputs # c.frd.noutputs
            THEN Fail("NotImplementedError", "mimo_div") @@ [heap |-> c.heap]
            ELSE FRD(SeriesProduct(self.fresp, c.frd.fresp),
                     c.heap[self.omega], self.smooth /\ c.frd.smooth)
                 @@ [heap |-> c.heap])

\* self * other
__mul__(self, other, h) ==
    NoWarn @@
    (IF IsScalar(other) THEN
        FRD(TScale(self.fresp, Q(other.val)), h[self.omega], self.smooth)
            @@ [heap |-> h]
     ELSE
        LET c == _convert_to_frd(other, self, h)
        IN  IF c.status # "ok" THEN c
            ELSE IF self.ninputs # c.frd.noutputs
            THEN Fail("ValueError", "size_mismatch") @@ [heap |-> c.heap]
            ELSE FRD(SeriesProduct(self.fresp, c.frd.fresp),
                     c.heap[self.omega], self.smooth /\ c.frd.smooth)
                 @@ [heap |-> c.heap])

\* __rmul__ without the smooth= keyword in its scalar branch.
RMulDropsSmooth(self, other, h) ==
    NoWarn @@
    (IF IsScalar(other) THEN
        FRD(TScale(self.fresp, Q(other.val)), h[self.omega], FALSE)
            @@ [heap |-> h]
     ELSE
        LET c == _convert_to_frd(other, self, h)
        IN  IF c.status # "ok" THEN c
            ELSE IF self.noutputs # c.frd.ninputs
            THEN Fail("ValueError", "size_mismatch") @@ [heap |-> c.heap]
            ELSE FRD(SeriesProduct(c.frd.fresp, self.fresp),
                     c.heap[self.omega], self.smooth /\ c.frd.smooth)
                 @@ [heap |-> c.heap])

\* other * self
__rmul__(self, other, h) ==
    NoWarn @@
    (IF IsScalar(other) THEN
        FRD(TScale(self.fresp, Q(other.val)), h[self.omega], self.smooth)
            @@ [heap |-> h]
     ELSE
        LET c == _convert_to_frd(other, self, h)
        IN  IF c.status # "ok" THEN c
            ELSE IF self.noutputs # c.frd.ninputs
            THEN Fail("ValueError", "size_mismatch") @@ [heap |-> c.heap]
            ELSE FRD(SeriesProduct(c.frd.fresp, self.fresp),
                     c.heap[self.omega], self.smooth /\ c.frd.smooth)
                 @@ [heap |-> c.heap])

\* __truediv__ testing only self for more than one input or output.
TrueDivChecksSelfOnly(self, other, h) ==
    NoWarn @@
    (IF IsScalar(other) THEN
        FRD(TScale(self.fresp, QDiv(Q(1), Q(other.val))), h[self.omega], self.smooth)
            @@ [heap |-> h]
     ELSE
        LET c == _convert_to_frd(other, self, h)
        IN  IF c.status # "ok" THEN c
            ELSE IF self.ninputs > 1 \/ self.noutputs > 1
            THEN Fail("NotImplementedError", "mimo_div") @@ [heap |-> c.heap]
            ELSE FRD(TDiv(self.fresp, c.frd.fresp),
                     c.heap[self.omega], self.smooth /\ c.frd.smooth)
                 @@ [heap |-> c.heap])

\* self / other
__truediv__(self, other, h) ==
    NoWarn @@
    (IF IsScalar(other) THEN
        FRD(TScale(self.fresp, QDiv(Q(1), Q(other.val))), h[self.omega], self.smooth)
            @@ [heap |-> h]
     ELSE
        LET c == _convert_to_frd(other, self, h)
        IN  IF c.status # "ok" THEN c
            ELSE IF self.ninputs > 1 \/ self.noutputs > 1
                    \/ c.frd.ninputs > 1 \/ c.frd.noutputs > 1
            THEN Fail("NotImplementedError", "mimo_div") @@ [heap |-> c.heap]
            ELSE FRD(TDiv(self.fresp, c.frd.fresp),
                     c.heap[self.omega], self.smooth /\ c.frd.smooth)
                 @@ [heap |-> c.heap])

\* c / T, elementwise, for a number c
TRecip(T, c) ==
    [i \in 1..NOut(T) |-> [j \in 1..NIn(T) |-> [k \in 1..NFreq(T) |-> QDiv(c, T[i][j][k])]]]

\* other / self, for an operand other that is not an FRD handled by its own
\* __truediv__: a scalar divides elementwise; any other operand is coerced on
\* self.omega and then divided by self with its own __truediv__, which
\* coerces self on the operand's omega (sorted in place: the array of the
\* operand itself when it is an FRD of the session).
__rtruediv__(self, other, h) ==
    NoWarn @@
    (IF IsScalar(other) THEN
        FRD(TRecip(self.fresp, Q(other.val)), h[self.omega], self.smooth)
            @@ [heap |-> h]
     ELSE
        LET c == _convert_to_frd(other, self, h)
        IN  IF c.status # "ok" THEN c
            ELSE IF self.ninputs > 1 \/ self.noutputs > 1
                    \/ c.frd.ninputs > 1 \/ c.frd.noutputs > 1
            THEN Fail("NotImplementedError", "mimo_div") @@ [heap |-> c.heap]
            ELSE
                LET h2 == IF other.kind = "frd"
                          THEN SortInPlace(c.heap, objs[other.ref].omega)
                          ELSE c.heap
                    omega == IF other.kind = "frd" THEN h2[objs[other.ref].omega]
                             ELSE NpSort(c.frd.omega)
                    mine == h2[self.omega]
                IN  IF Len(omega) = Len(mine)
                       /\ \A k \in 1..Len(omega) : Abs(omega[k] - mine[k]) < _epsw
                    THEN FRD(TDiv(c.frd.fresp, self.fresp), omega,
                             c.frd.smooth /\ self.smooth) @@ [heap |-> h2]
                    ELSE Fail("NotImplementedError", "grid_mismatch") @@ [heap |-> h2])

\* A temporary FRD as an operand.
Tmp(frd) == [kind |-> "tmp", val |-> frd]

\* A temporary FRD as the left operand of an operator: its omega array is
\* the last one of the heap.
TmpSelf(frd, h) ==
    [omega |-> Len(h), fresp |-> frd.fresp, ninputs |-> frd.ninputs,
     noutputs |-> frd.noutputs, smooth |-> frd.smooth, dt |-> frd.dt,
     squeeze |-> frd.squeeze, return_magphase |-> frd.return_magphase,
     _return_singvals |-> frd._return_singvals]

\* other + self
__radd__(self, other, h) == __add__(self, other, h)

\* other - self, that is other + (-self): the __add__ of other when other
\* is an FRD, the __radd__ of the temporary -self when it is a number.
__rsub__(self, other, h) ==
    LET neg == __neg__(View(self, h))
    IN  IF other.kind = "frd" THEN __add__(objs[other.ref], Tmp(neg), h)
        ELSE LET h1 == Append(h, neg.omega)
                 r == __radd__(TmpSelf(neg, h1), other, h1)
             IN  [r EXCEPT !.heap = SubSeq(@, 1, Len(h))]

\* ones(self.fresp.shape)
Ones(self) == Const(NOut(self.fresp), NIn(self.fresp), NFreq(self.fresp), Q(1))

\* objs[i] ** e, for the exponent e = [int |-> whether its type is int,
\* n |-> its value]. The heap it leaves holds the omega arrays of its
\* temporaries after those of the session.
\* What is counted of a power call: the nested power calls it has made and
\* whether the innermost of them was the call with exponent 0.
Depth(calls, base) == [calls |-> calls, base |-> base]

RECURSIVE __pow__(_, _, _)

\* __pow__ with the exponent 1 as a second base case.
PowEndsAtOne(i, e, h) ==
    LET self == objs[i]
    IN  IF ~e.int THEN Depth(0, FALSE) @@ NoWarn @@ Fail("ValueError", "bad_exponent")
                           @@ [heap |-> h]
        ELSE IF e.n = 0 THEN
            Depth(0, TRUE) @@ NoWarn @@ FRD(Ones(self), h[self.omega], self.smooth)
                @@ [heap |-> h]
        ELSE IF e.n = 1 THEN
            Depth(0, FALSE) @@ NoWarn @@ FRD(self.fresp, h[self.omega], self.smooth)
                @@ [heap |-> h]
        ELSE IF e.n > 0 THEN
            LET r == __pow__(i, [e EXCEPT !.n = @ - 1], h)
            IN  Depth(r.calls + 1, r.base) @@
                (IF r.status # "ok" THEN r ELSE __mul__(self, Tmp(r.frd), r.heap))
        ELSE
            LET h0 == Append(h, h[self.omega])
                one == NewFRD(Ones(self), h[self.omega], FALSE)
                inv == __truediv__(TmpSelf(one, h0), [kind |-> "frd", ref |-> i], h0)
            IN  IF inv.status # "ok" THEN Depth(0, FALSE) @@ inv
                ELSE LET r == __pow__(i, [e EXCEPT !.n = @ + 1], inv.heap)
                     IN  Depth(r.calls + 1, r.base) @@
                         (IF r.status # "ok" THEN r
                          ELSE LET h1 == Append(r.heap, inv.frd.omega)
                               IN  __mul__(TmpSelf(inv.frd, h1), Tmp(r.frd), h1))

__pow__(i, e, h) ==
    LET self == objs[i]
    IN  IF ~e.int THEN Depth(0, FALSE) @@ NoWarn @@ Fail("ValueError", "bad_exponent")
                           @@ [heap |-> h]
        ELSE IF e.n = 0 THEN
            Depth(0, TRUE) @@ NoWarn @@ FRD(Ones(self), h[self.omega], self.smooth)
                @@ [heap |-> h]
        ELSE IF e.n > 0 THEN
            LET r == __pow__(i, [e EXCEPT !.n = @ - 1], h)
            IN  Depth(r.calls + 1, r.base) @@
                (IF r.status # "ok" THEN r ELSE __mul__(self, Tmp(r.frd), r.heap))
        ELSE
            LET h0 == Append(h, h[self.omega])
                one == NewFRD(Ones(self), h[self.omega], FALSE)
                inv == __truediv__(TmpSelf(one, h0), [kind |-> "frd", ref |-> i], h0)
            IN  IF inv.status # "ok" THEN Depth(0, FALSE) @@ inv
                ELSE LET r == __pow__(i, [e EXCEPT !.n = @ + 1], inv.heap)
                     IN  Depth(r.calls + 1, r.base) @@
                         (IF r.status # "ok" THEN r
                          ELSE LET h1 == Append(r.heap, inv.frd.omega)
                               IN  __mul__(TmpSelf(inv.frd, h1), Tmp(r.frd), h1))

\* feedback with the smoothing rule of __mul__.
FeedbackSmoothIfBoth(self, other, sign, h) ==
    LET c == _convert_to_frd(other, self, h)
    IN  NoWarn @@
        (IF c.status # "ok" THEN c
         ELSE IF self.noutputs # c.frd.ninputs \/ self.ninputs # c.frd.noutputs
         THEN Fail("ValueError", "size_mismatch") @@ [heap |-> c.heap]
         ELSE
            LET F == NFreq(self.fresp)
                I_AB == [k \in 1..F |->
                            MatAdd(Eye(self.ninputs),
                                   MatMul(Slice(c.frd.fresp, k), Slice(self.fresp, k)))]
            IN  IF \E k \in 1..F : Det(I_AB[k]) = Q(0)
                THEN Fail("LinAlgError", "singular") @@ [heap |-> c.heap]
                ELSE FRD(Stack([k \in 1..F |->
                                   MatMul(Slice(self.fresp, k), MatInv(I_AB[k]))],
                               self.noutputs, self.ninputs),
                         c.frd.omega, self.smooth /\ c.frd.smooth) @@ [heap |-> c.heap])

\* self.feedback(other, sign)
feedback(self, other, sign, h) ==
    LET c == _convert_to_frd(other, self, h)
    IN  NoWarn @@
        (IF c.status # "ok" THEN c
         ELSE IF self.noutputs # c.frd.ninputs \/ self.ninputs # c.frd.noutputs
         THEN Fail("ValueError", "size_mismatch") @@ [heap |-> c.heap]
         ELSE
            LET F == NFreq(self.fresp)
                I_AB == [k \in 1..F |->
                            MatAdd(Eye(self.ninputs),
                                   MatMul(Slice(c.frd.fresp, k), Slice(self.fresp, k)))]
            IN  IF \E k \in 1..F : Det(I_AB[k]) = Q(0)
                THEN Fail("LinAlgError", "singular") @@ [heap |-> c.heap]
                ELSE FRD(Stack([k \in 1..F |->
                                   MatMul(Slice(self.fresp, k), MatInv(I_AB[k]))],
                               self.noutputs, self.ninputs),
                         c.frd.omega, self.smooth) @@ [heap |-> c.heap])

-----------------------------------------------------------------------------
(* Evaluation *)

\* numpy.isin(self.omega, omega): for each stored frequency, whether it is
\* equal to some requested point.
IsIn(omega, pts) ==
    [m \in 1..Len(omega) |-> \E k \in 1..Len(pts) : pts[k] = <<omega[m], 0>>]

\* fresp[:, :, elements] for a boolean mask: the masked slices in stored order.
Masked(T, elements) ==
    LET idx == SelectSeq([m \in 1..Len(elements) |-> m], LAMBDA m : elements[m])
    IN  [i \in 1..NOut(T) |-> [j \in 1..NIn(T) |-> [k \in 1..Len(idx) |-> T[i][j][idx[k]]]]]

\* The value of the spline fitted through (omega, fresp[i, j, :]) at w: the
\* sample itself at a sampled frequency, <<w, -1>> (some interpolated value)
\* elsewhere.
Splev(omega, samples, w) ==
    IF \E m \in 1..Len(omega) : omega[m] = w
    THEN samples[CHOOSE m \in 1..Len(omega) : omega[m] = w]
    ELSE <<w, -1>>

\* self.eval(omega) up to the final squeeze of the result's shape: the
\* outcome and the array `out`. What scipy's splev does with a complex point
\* is not this module's code: it either refuses it (cast = FALSE) or
\* evaluates at its real part (cast = TRUE).
eval(self, req, cast, h) ==
    LET omega == h[self.omega]
        pts == req.pts
        elements == IsIn(omega, pts)
    IN  IF \E k \in 1..Len(pts) : pts[k][2] > 0
        THEN [status |-> "ValueError", err |-> "real_valued", out |-> <<>>]
        ELSE IF ~self.smooth THEN
            IF SumSeq([m \in 1..Len(omega) |-> IF elements[m] THEN 1 ELSE 0]) < Len(pts)
            THEN [status |-> "ValueError", err |-> "not_in_list", out |-> <<>>]
            ELSE [status |-> "ok", err |-> "none", out |-> Masked(self.fresp, elements)]
        ELSE IF ~cast /\ \E k \in 1..Len(pts) : pts[k][2] # 0
        THEN [status |-> "TypeError", err |-> "splev", out |-> <<>>]
        ELSE [status |-> "ok", err |-> "none",
              out |-> [i \in 1..self.noutputs |-> [j \in 1..self.ninputs |->
                          [k \in 1..Len(pts) |-> Splev(omega, self.fresp[i][j], pts[k][1])]]]]

\* s.imag as a request to eval: real frequencies.
Imag(s) == [scalar |-> s.scalar, pts |-> [k \in 1..Len(s.pts) |-> <<s.pts[k][2], 0>>]]

\* __call__ that tests real > 0 instead of abs(real) > 0.
CallTestsPositiveReal(self, s, cast, h) ==
    IF \E k \in 1..Len(s.pts) : s.pts[k][1] > 0
    THEN [status |-> "ValueError", err |-> "purely_imaginary", out |-> <<>>]
    ELSE eval(self, Imag(s), cast, h)

\* self(s) for a given s
__call__(self, s, cast, h) ==
    IF \E k \in 1..Len(s.pts) : Abs(s.pts[k][1]) > 0
    THEN [status |-> "ValueError", err |-> "purely_imaginary", out |-> <<>>]
    ELSE eval(self, Imag(s), cast, h)

\* self() with no point argument: copy(self) with the keywords that are
\* passed (squeeze "None": not passed; return_magphase.given = FALSE: not
\* passed) replacing the values of self. The copy is shallow: it refers to
\* the omega and fresp arrays of self.
CallKeepsOwnFlags(self, squeeze, return_magphase) == self

CallCopy(self, squeeze, return_magphase) ==
    [self EXCEPT !.squeeze = IF squeeze = "None" THEN self.squeeze ELSE squeeze,
                 !.return_magphase = IF return_magphase.given
                                     THEN return_magphase.val
                                     ELSE self.return_magphase]

-----------------------------------------------------------------------------
(* Iteration and indexed access *)

\* _process_frequency_response(sys, omega, out, squeeze) for an array omega:
\* the number of dimensions of the array it returns, and its data. squeeze
\* False keeps the three dimensions, squeeze True removes every dimension of
\* length 1, squeeze None does so for a SISO system only.
_process_frequency_response(sys, out, squeeze) ==
    [ndim |-> IF squeeze = "True" \/ (squeeze = "None" /\ sys.ninputs = 1
                                                        /\ sys.noutputs = 1)
              THEN (IF NOut(out) > 1 THEN 1 ELSE 0) + (IF NIn(out) > 1 THEN 1 ELSE 0)
                       + (IF NFreq(out) > 1 THEN 1 ELSE 0)
              ELSE 3,
     data |-> out]

\* The items iteration yields, each with the name of what it is.
__iter__(self, h) ==
    LET fresp == _process_frequency_response(self, self.fresp, self.squeeze)
        omega == [ndim |-> 1, data |-> h[self.omega]]
    IN  IF self._return_singvals
        THEN << [item |-> "singvals",
                 val |-> [ndim |-> 2,
                          data |-> [i \in 1..NOut(self.fresp) |-> self.fresp[i][1]]]],
                [item |-> "omega", val |-> omega] >>
        ELSE IF ~self.return_magphase
        THEN << [item |-> "omega", val |-> omega], [item |-> "response", val |-> fresp] >>
        ELSE << [item |-> "magnitude", val |-> fresp], [item |-> "phase", val |-> fresp],
                [item |-> "omega", val |-> omega] >>

\* list(self.__iter__())[index], with Python's negative indices.
__getitem__(self, index, h) ==
    LET items == __iter__(self, h)
        n == Len(items)
    IN  IF index >= n \/ index < -n
        THEN [status |-> "IndexError", err |-> "index", out |-> <<>>]
        ELSE [status |-> "ok", err |-> "none",
              out |-> <<items[IF index >= 0 THEN index + 1 ELSE n + index + 1]>>]

\* __len__ returning 2 whatever return_magphase is.
LenAlwaysTwo(self) == 2

__len__(self) == IF self.return_magphase THEN 3 ELSE 2

-----------------------------------------------------------------------------
(* pole_zero_plot *)

\* What pole_zero_plot can be given in its data list: a state-space or
\* transfer-function system or a RootLocusData, each with its dt, or
\* something else.
PzData ==
    {[kind |-> "sys", dt |-> dt] : dt \in Timebases}
        \cup {[kind |-> "rl", dt |-> dt] : dt \in {0, 1}}
        \cup {[kind |-> "other", dt |-> None]}

\* The lists of one or two of them.
PzLists == {<<d>> : d \in PzData} \cup {<<d, e>> : d \in PzData, e \in PzData}

\* The plot= keyword: None, True or False.
PlotArgs == {"None", "True", "False"}

\* The numbers of axes the current figure can have when the call is made.
FigureAxes == 0..2

\* pole_zero_plot(data, plot=..., grid=...) up to the choice of the axes:
\* the exception it raises, if any. With grid set and time bases that are
\* neither all continuous nor all discrete, the ValueError is constructed
\* but not raised, and the next statement reads the local variable ax,
\* which no branch has assigned.
pole_zero_plot(data, plot, grid, axes) ==
    IF ~(\A k \in 1..Len(data) : data[k].kind = "sys")
       /\ ~(\A k \in 1..Len(data) : data[k].kind = "rl")
    THEN [status |-> "TypeError", err |-> "unknown_data"]
    ELSE IF plot = "False" THEN [status |-> "ok", err |-> "none"]
    ELSE IF ~grid THEN [status |-> "ok", err |-> "none"]
    ELSE IF \A k \in 1..Len(data) : data[k].dt \in {0, None}
    THEN [status |-> "ok", err |-> "none"]
    ELSE IF \E k \in 1..Len(data) : data[k].dt = None
    THEN [status |-> "TypeError", err |-> "none_compared"]
    ELSE IF \A k \in 1..Len(data) : data[k].dt > 0
    THEN [status |-> "ok", err |-> "none"]
    ELSE [status |-> "UnboundLocalError", err |-> "ax"]

-----------------------------------------------------------------------------
(* The session: one action per call *)

\* An exception that no call has raised so far: an uncaught exception ends
\* the session.
Running == last.status = "ok"

\* Room for the object an operator returns.
Room == Running /\ Len(objs) < MaxObjs

\* Room for an object the caller constructs, one place being kept for a result.
CtorRoom == Running /\ Len(objs) < MaxObjs - 1

\* The call's outcome r recorded; a returned FRD becomes a new object of the
\* session with an omega array of its own.
Store(op, i, other, r) ==
    IF r.status = "ok" THEN
        /\ omegaHeap' = Append(r.heap, r.frd.omega)
        /\ objs' = Append(objs, [omega |-> Len(r.heap) + 1, fresp |-> r.frd.fresp,
                                 ninputs |-> r.frd.ninputs, noutputs |-> r.frd.noutputs,
                                 smooth |-> r.frd.smooth, dt |-> r.frd.dt,
                                 squeeze |-> r.frd.squeeze,
                                 return_magphase |-> r.frd.return_magphase,
                                 _return_singvals |-> r.frd._return_singvals])
        /\ born' = Append(born, [omega |-> r.frd.omega, fresp |-> r.frd.fresp])
        /\ last' = [op |-> op, self |-> i, other |-> other, status |-> "ok",
                    err |-> "none", warn |-> r.warn, res |-> Len(objs) + 1, out |-> <<>>]
    ELSE
        /\ omegaHeap' = r.heap
        /\ UNCHANGED <<objs, born>>
        /\ last' = [op |-> op, self |-> i, other |-> other, status |-> r.status,
                    err |-> r.err, warn |-> r.warn, res |-> 0, out |-> <<>>]

Construct ==
    \E r \in Responses, w \in Grids, smooth \in BOOLEAN :
        /\ CtorRoom
        /\ Store("init", 0, NoOperand,
                 NoWarn @@ InitArray(r, w, smooth, NotGiven, NotGiven)
                     @@ [heap |-> omegaHeap])

\* The constructor called with the inputs= and outputs= keywords.
ConstructKw ==
    \E r \in Responses, w \in Grids, inputs \in SignalArgs, outputs \in SignalArgs :
        /\ CtorRoom
        /\ Store("init", 0, [kind |-> "kw", inputs |-> inputs, outputs |-> outputs],
                 NoWarn @@ InitArray(r, w, FALSE, inputs, outputs)
                     @@ [heap |-> omegaHeap])

\* The values of the squeeze= keyword; "None" is also the keyword not passed.
SqueezeArgs == {"None", "True", "False"}

\* The return_magphase= keyword of a call: not passed, True or False.
MagphaseArgs ==
    {[given |-> FALSE, val |-> FALSE], [given |-> TRUE, val |-> FALSE],
     [given |-> TRUE, val |-> TRUE]}

\* Indices given to frd[index].
Indices == -3..3

\* The constructor called with the keywords of the presentation of results.
ConstructFlags ==
    \E r \in Responses, squeeze \in SqueezeArgs, return_magphase \in BOOLEAN,
       singvals \in BOOLEAN :
        /\ CtorRoom
        /\ Store("init", 0, [kind |-> "flags"],
                 NoWarn @@ InitFlags(r, <<0, 2, 4, 6>>, squeeze, return_magphase, singvals)
                     @@ [heap |-> omegaHeap])

\* frd(squeeze=..., return_magphase=...)
CallNoArg ==
    \E i \in 1..Len(objs), squeeze \in SqueezeArgs, return_magphase \in MagphaseArgs :
        /\ Room
        /\ objs' = Append(objs, CallCopy(objs[i], squeeze, return_magphase))
        /\ born' = Append(born, [omega |-> omegaHeap[objs[i].omega],
                                 fresp |-> objs[i].fresp])
        /\ last' = [Idle EXCEPT !.op = "call_none", !.self = i,
                                !.other = [kind |-> "flags", squeeze |-> squeeze,
                                           return_magphase |-> return_magphase],
                                !.res = Len(objs) + 1]
        /\ UNCHANGED omegaHeap

\* tuple(frd)
Iter ==
    \E i \in 1..Len(objs) :
        /\ Running
        /\ last' = [Idle EXCEPT !.op = "iter", !.self = i,
                                !.out = __iter__(objs[i], omegaHeap)]
        /\ UNCHANGED <<omegaHeap, objs, born>>

\* frd[index]
GetItem ==
    \E i \in 1..Len(objs), index \in Indices :
        LET r == __getitem__(objs[i], index, omegaHeap)
        IN  /\ Running
            /\ last' = [Idle EXCEPT !.op = "getitem", !.self = i,
                                    !.other = [kind |-> "index", val |-> index],
                                    !.status = r.status, !.err = r.err, !.out = r.out]
            /\ UNCHANGED <<omegaHeap, objs, born>>

\* len(frd)
Length ==
    \E i \in 1..Len(objs) :
        /\ Running
        /\ last' = [Idle EXCEPT !.op = "len", !.self = i,
                                !.out = <<[item |-> "len", val |-> __len__(objs[i])]>>]
        /\ UNCHANGED <<omegaHeap, objs, born>>

\* The constructor called with the dt= keyword.
ConstructDt ==
    \E r \in Responses, w \in {<<0, 2, 4, 6>>, <<0, 2>>}, dt \in Timebases :
        /\ CtorRoom
        /\ Store("init", 0, [kind |-> "dt", dt |-> dt],
                 NoWarn @@ InitDt(r, w, dt) @@ [heap |-> omegaHeap])

ConstructLTI ==
    \E g \in LTIs, w \in Grids, smooth \in BOOLEAN :
        /\ CtorRoom
        /\ Store("init_lti", 0, NoOperand,
                 NoWarn @@ InitLTI(g, w, smooth) @@ [heap |-> omegaHeap])

\* The positional arguments of a constructor call: none, one (an FRD of the
\* session, an analytic model, an array), two (a response and a frequency
\* argument, or an analytic model and a frequency vector), three.
ArgLists ==
    {<<>>}
        \cup {<<[kind |-> "frd", ref |-> i]>> : i \in 1..Len(objs)}
        \cup {<<[kind |-> "lti", val |-> [g0 |-> 1, g2 |-> 0]]>>}
        \cup {<<[kind |-> "array", ndim |-> 1, data |-> <<1, 2>>]>>}
        \cup {<<r, w>> : r \in RespArgs, w \in FreqArgs}
        \cup {<<[kind |-> "lti", val |-> [g0 |-> 1, g2 |-> 0]],
                [kind |-> "array", ndim |-> 1, data |-> <<0, 2, 4, 6>>]>>}
        \cup {<<[kind |-> "array", ndim |-> 1, data |-> <<1, 2>>],
                [kind |-> "array", ndim |-> 1, data |-> <<0, 2>>],
                [kind |-> "array", ndim |-> 1, data |-> <<0, 2>>]>>}

\* The constructor called with any number of positional arguments, with or
\* without a keyword it does not know. A copy refers to the omega and fresp
\* arrays of its argument.
ConstructArgs ==
    \E args \in ArgLists, unknown \in BOOLEAN, smooth \in BOOLEAN :
        LET r == __init__(args, unknown, smooth, objs, omegaHeap)
            call == [kind |-> "args", args |-> args, unknown |-> unknown,
                     smooth |-> smooth]
        IN  /\ CtorRoom
            /\ IF r.status = "ok" /\ Len(args) = 1 THEN
                   /\ objs' = Append(objs, [omega |-> objs[args[1].ref].omega,
                                            fresp |-> r.frd.fresp,
                                            ninputs |-> r.frd.ninputs,
                                            noutputs |-> r.frd.noutputs,
                                            smooth |-> r.frd.smooth,
                                            dt |-> objs[args[1].ref].dt,
                                            squeeze |-> r.frd.squeeze,
                                            return_magphase |-> r.frd.return_magphase,
                                            _return_singvals |-> r.frd._return_singvals])
                   /\ born' = Append(born, [omega |-> r.frd.omega, fresp |-> r.frd.fresp])
                   /\ last' = [Idle EXCEPT !.op = "init_args", !.other = call,
                                           !.res = Len(objs) + 1]
                   /\ UNCHANGED omegaHeap
               ELSE Store("init_args", 0, call, NoWarn @@ r @@ [heap |-> omegaHeap])

\* FRD(sys, smooth=...) for an FRD sys: the new object refers to the omega
\* and fresp arrays of sys themselves.
Copy ==
    \E i \in 1..Len(objs), smooth \in BOOLEAN :
        LET r == FRD(objs[i].fresp, omegaHeap[objs[i].omega], smooth)
        IN  /\ CtorRoom
            /\ IF r.status = "ok" THEN
                   /\ objs' = Append(objs, [objs[i] EXCEPT !.smooth = smooth,
                                                           !.ninputs = NIn(objs[i].fresp),
                                                           !.noutputs = NOut(objs[i].fresp),
                                                           !.squeeze = r.frd.squeeze,
                                                           !.return_magphase = r.frd.return_magphase,
                                                           !._return_singvals = r.frd._return_singvals])
                   /\ born' = Append(born, [omega |-> omegaHeap[objs[i].omega],
                                            fresp |-> objs[i].fresp])
                   /\ last' = [Idle EXCEPT !.op = "copy", !.self = i,
                                           !.res = Len(objs) + 1]
               ELSE
                   /\ UNCHANGED <<objs, born>>
                   /\ last' = [Idle EXCEPT !.op = "copy", !.self = i,
                                           !.status = r.status, !.err = r.err]
            /\ UNCHANGED omegaHeap

Neg ==
    \E i \in 1..Len(objs) :
        /\ Room
        /\ Store("neg", i, NoOperand,
                 NoWarn @@ Ok(__neg__(View(objs[i], omegaHeap))) @@ [heap |-> omegaHeap])

Add ==
    \E i \in 1..Len(objs), other \in Operands :
        /\ Room
        /\ Store("add", i, other, __add__(objs[i], other, omegaHeap))

Sub ==
    \E i \in 1..Len(objs), other \in Operands :
        /\ Room
        /\ Store("sub", i, other, __sub__(objs[i], other, omegaHeap))

RAdd ==
    \E i \in 1..Len(objs), other \in Operands :
        /\ Room
        /\ Store("radd", i, other, __radd__(objs[i], other, omegaHeap))

RSub ==
    \E i \in 1..Len(objs), other \in {o \in Operands : o.kind \in {"frd", "scalar"}} :
        /\ Room
        /\ Store("rsub", i, other, __rsub__(objs[i], other, omegaHeap))

Mul ==
    \E i \in 1..Len(objs), other \in Operands :
        /\ Room
        /\ Store("mul", i, other, __mul__(objs[i], other, omegaHeap))

RMul ==
    \E i \in 1..Len(objs), other \in Operands :
        /\ Room
        /\ Store("rmul", i, other, __rmul__(objs[i], other, omegaHeap))

TrueDiv ==
    \E i \in 1..Len(objs), other \in Operands :
        /\ Room
        /\ Store("truediv", i, other, __truediv__(objs[i], other, omegaHeap))

RTrueDiv ==
    \E i \in 1..Len(objs), other \in Operands :
        /\ Room
        /\ Store("rtruediv", i, other, __rtruediv__(objs[i], other, omegaHeap))

\* The temporaries of a call are dropped when it returns.
Pow ==
    \E i \in 1..Len(objs), e \in Exponents :
        LET r == __pow__(i, e, omegaHeap)
        IN  /\ Room
            /\ Store("pow", i, [kind |-> "exp", int |-> e.int, n |-> e.n,
                                calls |-> r.calls, base |-> r.base],
                     [r EXCEPT !.heap = SubSeq(@, 1, Len(omegaHeap))])

Feedback ==
    \E i \in 1..Len(objs), other \in Operands, sign \in {-1, 1} :
        /\ Room
        /\ Store("feedback", i, other @@ [sign |-> sign],
                 feedback(objs[i], other, sign, omegaHeap))

Eval ==
    \E i \in 1..Len(objs), req \in Requests, cast \in BOOLEAN :
        LET r == eval(objs[i], req, cast, omegaHeap)
        IN  /\ Running
            /\ last' = [op |-> "eval", self |-> i, other |-> req, status |-> r.status,
                        err |-> r.err, warn |-> FALSE, res |-> 0, out |-> r.out]
            /\ UNCHANGED <<omegaHeap, objs, born>>

Call ==
    \E i \in 1..Len(objs), s \in Points, cast \in BOOLEAN :
        LET r == __call__(objs[i], s, cast, omegaHeap)
        IN  /\ Running
            /\ last' = [op |-> "call", self |-> i, other |-> s, status |-> r.status,
                        err |-> r.err, warn |-> FALSE, res |-> 0, out |-> r.out]
            /\ UNCHANGED <<omegaHeap, objs, born>>

Next ==
    \/ Construct
    \/ ConstructLTI
    \/ Copy
    \/ Neg
    \/ Add
    \/ Sub
    \/ Mul
    \/ RMul
    \/ TrueDiv
    \/ RTrueDiv
    \/ Pow
    \/ Feedback

Spec == Init /\ [][Next]_vars

\* Construction with the signal keywords, followed by copies and negations.
NextCtor ==
    \/ ConstructKw
    \/ ConstructArgs
    \/ Copy
    \/ Neg

SpecCtor == Init /\ [][NextCtor]_vars

\* One FRD constructed, then evaluated.
NextEval ==
    \/ (objs = <<>> /\ Construct)
    \/ (objs = <<>> /\ ConstructLTI)
    \/ Eval
    \/ Call

SpecEval == Init /\ [][NextEval]_vars

\* One FRD constructed with presentation keywords, reconfigured by calls
\* without argument, iterated and indexed.
NextIter ==
    \/ (objs = <<>> /\ ConstructFlags)
    \/ CallNoArg
    \/ Iter
    \/ GetItem
    \/ Length

SpecIter == Init /\ [][NextIter]_vars

\* Analytic models sampled, then combined with each other, with numbers and
\* with analytic models.
NextLti ==
    \/ ConstructLTI
    \/ Add
    \/ RAdd
    \/ Sub
    \/ RSub
    \/ Mul
    \/ RMul
    \/ TrueDiv
    \/ RTrueDiv

SpecLti == Init /\ [][NextLti]_vars

\* What is not a system: the numbers and 2-D arrays above, a string, a 1-D
\* list and a 3-D array.
Constants ==
    {[kind |-> "scalar", val |-> c] : c \in Scalars}
        \cup {[kind |-> "matrix", val |-> M] : M \in Matrices}
        \cup {[kind |-> "str"], [kind |-> "list"], [kind |-> "array3d"]}

\* The inputs= / outputs= arguments of _convert_to_frd.
Counts == 1..2

\* _convert_to_frd(sys, omega, inputs=..., outputs=...) called on its own.
Convert ==
    \E sys \in Constants, omega \in Grids, inputs \in Counts, outputs \in Counts :
        /\ Room
        /\ Store("convert", 0,
                 [kind |-> "convert", sys |-> sys, omega |-> omega,
                  inputs |-> inputs, outputs |-> outputs],
                 NoWarn @@ ConvertConstant(sys, omega, inputs, outputs)
                     @@ [heap |-> omegaHeap])

NextConv == Convert

SpecConv == Init /\ [][NextConv]_vars

\* Calls of pole_zero_plot.
PoleZeroPlot ==
    \E data \in PzLists, plot \in PlotArgs, grid \in BOOLEAN, axes \in FigureAxes :
        LET r == pole_zero_plot(data, plot, grid, axes)
        IN  /\ last' = [Idle EXCEPT !.op = "pole_zero_plot",
                                    !.other = [kind |-> "pz", data |-> data, plot |-> plot,
                                               grid |-> grid, axes |-> axes],
                                    !.status = r.status, !.err = r.err]
            /\ UNCHANGED <<omegaHeap, objs, born>>

NextPz == PoleZeroPlot

SpecPz == Init /\ [][NextPz]_vars

\* FRDs constructed with a timebase, then combined.
NextDt ==
    \/ ConstructDt
    \/ Neg
    \/ Add
    \/ Sub
    \/ Mul
    \/ TrueDiv
    \/ Feedback

SpecDt == Init /\ [][NextDt]_vars

-----------------------------------------------------------------------------
(* Claims *)

BinaryOps == {"add", "sub", "mul", "rmul", "truediv", "feedback"}

\* C1: no operation changes the omega or fresp of an FRD: every FRD of the
\* session still holds the omega sequence and the fresp it held right after
\* its construction.
C1_OperandsUnchanged ==
    \A i \in 1..Len(objs) :
        /\ omegaHeap[objs[i].omega] = born[i].omega
        /\ objs[i].fresp = born[i].fresp

\* C2: a call that fails returns no object and leaves every FRD as it was
\* before the call (same omega order, same fresp, same flags).
C2_FailedCallHasNoEffect ==
    [][last'.status # "ok" =>
          /\ last'.res = 0
          /\ objs' = objs
          /\ \A i \in 1..Len(objs) : omegaHeap'[objs[i].omega] = omegaHeap[objs[i].omega]]_vars

\* len(a) = len(b) and |a[k] - b[k]| < 1e-8 for every k.
GridsMatch(a, b) ==
    /\ Len(a) = Len(b)
    /\ \A k \in 1..Len(a) : Abs(a[k] - b[k]) < _epsw

\* C3: an FRD operand is accepted on the grid of the left operand if and only
\* if the two frequency vectors, as they are when the operator is called, have
\* equal length and differ pointwise by less than 1e-8; every other FRD
\* operand fails with the grid-mismatch error.
C3_AcceptedIffGridsMatch ==
    [][(last'.op \in BinaryOps /\ last'.other.kind = "frd") =>
          ((last'.err # "grid_mismatch")
              <=> GridsMatch(omegaHeap[objs[last'.self].omega],
                             omegaHeap[objs[last'.other.ref].omega]))]_vars

\* C4: for two FRDs constructed with the same frequency vector, in whatever
\* order, and equal signal counts, a + b (a - b) succeeds and returns the
\* elementwise sum (difference), index k being the same frequency in a, b and
\* the result.
C4_AddOnSameVector ==
    (/\ last.op \in {"add", "sub"}
     /\ last.other.kind = "frd"
     /\ born[last.self].omega = born[last.other.ref].omega
     /\ objs[last.self].ninputs = objs[last.other.ref].ninputs
     /\ objs[last.self].noutputs = objs[last.other.ref].noutputs)
    => /\ last.status = "ok"
       /\ omegaHeap[objs[last.res].omega] = born[last.self].omega
       /\ objs[last.res].fresp =
              TAdd(born[last.self].fresp,
                   IF last.op = "add" THEN born[last.other.ref].fresp
                   ELSE TNeg(born[last.other.ref].fresp))

\* Strictly ascending, no negative entry.
Ascending(omega) ==
    /\ \A k \in 1..Len(omega) : omega[k] >= 0
    /\ \A k \in 1..(Len(omega) - 1) : omega[k] < omega[k + 1]

\* C5: every FRD has omega in strictly ascending order with no negative entry.
C5_OmegaStrictlyAscending ==
    \A i \in 1..Len(objs) : Ascending(omegaHeap[objs[i].omega])

\* C6: fresp.shape = (noutputs, ninputs, len(omega)) for every FRD, the
\* inputs= and outputs= keywords included.
C6_ShapeMatchesCounts ==
    \A i \in 1..Len(objs) :
        /\ NOut(objs[i].fresp) = objs[i].noutputs
        /\ NIn(objs[i].fresp) = objs[i].ninputs
        /\ NFreq(objs[i].fresp) = Len(omegaHeap[objs[i].omega])

\* Whether the real frequency w is one of the stored frequencies.
Stored(w, omega) == \E m \in 1..Len(omega) : omega[m] = w

RealRequest(req) == \A k \in 1..Len(req.pts) : req.pts[k][2] = 0

\* C7: on a non-smooth FRD, eval fails with the not-in-list error whenever a
\* requested (real) frequency is not a member of the stored omega.
C7_AbsentFrequencyFails ==
    (/\ last.op = "eval"
     /\ ~objs[last.self].smooth
     /\ RealRequest(last.other)
     /\ \E k \in 1..Len(last.other.pts) :
            ~Stored(last.other.pts[k][1], omegaHeap[objs[last.self].omega]))
    => last.err = "not_in_list"

\* C8: on a non-smooth FRD, if every requested frequency is stored then eval
\* succeeds and its k-th slice is the stored slice of the k-th requested
\* frequency. Stated for the FRDs whose omega is strictly ascending.
C8_SlicesInRequestOrder ==
    (/\ last.op = "eval"
     /\ ~objs[last.self].smooth
     /\ Ascending(omegaHeap[objs[last.self].omega])
     /\ RealRequest(last.other)
     /\ \A k \in 1..Len(last.other.pts) :
            Stored(last.other.pts[k][1], omegaHeap[objs[last.self].omega]))
    => /\ last.status = "ok"
       /\ NFreq(last.out) = Len(last.other.pts)
       /\ \A k \in 1..Len(last.other.pts) :
              \E m \in 1..Len(omegaHeap[objs[last.self].omega]) :
                  /\ omegaHeap[objs[last.self].omega][m] = last.other.pts[k][1]
                  /\ Slice(last.out, k) = Slice(objs[last.self].fresp, m)

\* C9: eval rejects every request holding a frequency with a non-zero
\* imaginary part, positive or negative, with the real-valued-omega error.
\* Stated for the FRDs whose omega is strictly ascending.
C9_ComplexRequestRejected ==
    (/\ last.op = "eval"
     /\ Ascending(omegaHeap[objs[last.self].omega])
     /\ ~RealRequest(last.other))
    => last.err = "real_valued"

\* self_k * inv(I - sign * other_k * self_k) for every k, where it exists.
ClosedLoop(S, O, sign) ==
    [k \in 1..NFreq(S) |->
        LET L == MatMul(Slice(O, k), Slice(S, k))
            M == [i \in 1..Len(L) |-> [j \in 1..Len(L) |->
                     QAdd(Eye(Len(L))[i][j], QMul(Q(-sign), L[i][j]))]]
        IN  IF Det(M) = Q(0) THEN <<>> ELSE MatMul(Slice(S, k), MatInv(M))]

\* C10: a successful self.feedback(other, sign) holds, at every frequency k
\* where the inverse exists, self_k * inv(I - sign * other_k * self_k).
C10_FeedbackUsesSign ==
    (last.op = "feedback" /\ last.status = "ok")
    => LET S == objs[last.self].fresp
           O == _convert_to_frd(last.other, objs[last.self], omegaHeap).frd.fresp
           expected == ClosedLoop(S, O, last.other.sign)
       IN  \A k \in 1..NFreq(S) :
               expected[k] # <<>> => Slice(objs[last.res].fresp, k) = expected[k]

\* The operators with a precondition on the signal counts.
SizedOps == {"add", "sub", "mul", "rmul", "feedback"}

\* The operand handed to the coercion by the call recorded in l.
RightOperand(l, h) == IF l.op = "sub" THEN Negated(l.other, h).val ELSE l.other

\* Whether the counts of self and of the (coerced) operand o violate the
\* precondition of the operator op.
SizeViolated(op, self, o) ==
    CASE op \in {"add", "sub"} -> self.ninputs # o.ninputs \/ self.noutputs # o.noutputs
      [] op = "mul" -> self.ninputs # o.noutputs
      [] op = "rmul" -> self.noutputs # o.ninputs
      [] op = "feedback" -> self.noutputs # o.ninputs \/ self.ninputs # o.noutputs
      [] OTHER -> FALSE

\* C11 as stated: a binary operation on two FRDs (both with a strictly
\* ascending omega) whose counts violate the operator's precondition fails
\* with the size-mismatch ValueError.
C11_SizeMismatchFails ==
    (/\ last.op \in SizedOps
     /\ last.other.kind = "frd"
     /\ Ascending(omegaHeap[objs[last.self].omega])
     /\ Ascending(omegaHeap[objs[last.other.ref].omega])
     /\ SizeViolated(last.op, objs[last.self], objs[last.other.ref]))
    => (last.status = "ValueError" /\ last.err = "size_mismatch" /\ last.res = 0)

\* C11: a binary operation whose right operand the coercion accepts (a
\* scalar operand of * is not coerced) and whose counts violate the
\* operator's precondition fails with the size-mismatch ValueError and returns
\* nothing.
C11_SizeMismatchAfterCoercion ==
    [][(/\ last'.op \in SizedOps
        /\ ~(last'.op \in {"mul", "rmul"} /\ IsScalar(last'.other))
        /\ LET c == _convert_to_frd(RightOperand(last', omegaHeap),
                                    objs[last'.self], omegaHeap)
           IN  c.status = "ok" /\ SizeViolated(last'.op, objs[last'.self], c.frd))
       => (last'.status = "ValueError" /\ last'.err = "size_mismatch"
           /\ last'.res = 0 /\ objs' = objs)]_vars

C11_Witness ==
    /\ last.op = "feedback"
    /\ last.other.kind = "frd"
    /\ last.err = "size_mismatch"

\* The sum over l of L[i, l, k] * R[l, j, k].
RECURSIVE ProductEntry(_, _, _, _, _, _)
ProductEntry(L, R, i, j, k, l) ==
    IF l = 0 THEN Q(0)
    ELSE QAdd(ProductEntry(L, R, i, j, k, l - 1), QMul(L[i][l][k], R[l][j][k]))

\* Whether the tensor T is the per-frequency matrix product of L and R.
IsSeriesProduct(T, L, R) ==
    /\ NOut(T) = NOut(L)
    /\ NIn(T) = NIn(R)
    /\ NFreq(T) = NFreq(L)
    /\ \A i \in 1..NOut(L), j \in 1..NIn(R), k \in 1..NFreq(L) :
           T[i][j][k] = ProductEntry(L, R, i, j, k, NIn(L))

IsMIMO(o) == o.ninputs > 1 \/ o.noutputs > 1

DivOps == {"truediv", "rtruediv"}

\* C13 as stated: a division in which self is MIMO (on a strictly ascending
\* omega) fails as unimplemented and returns nothing, whether the other
\* operand is an FRD, an analytic model, a matrix or a numeric scalar.
C13_MimoDivisionFails ==
    (/\ last.op \in DivOps
     /\ last.other.kind \in {"frd", "lti", "matrix", "scalar"}
     /\ Ascending(omegaHeap[objs[last.self].omega])
     /\ IsMIMO(objs[last.self]))
    => (last.status = "NotImplementedError" /\ last.res = 0)

\* C13: self / other and other / self (other not an FRD in the second) with
\* an operand that the coercion accepts: when self or the operand is MIMO the
\* division fails as unimplemented and returns nothing; when both are SISO it
\* returns the elementwise quotient on self's grid, unless, in other / self,
\* the coercion of self on the operand's grid rejects self, which fails as
\* unimplemented too. A numeric scalar is not coerced: the division returns a
\* result whatever the shape of self.
C13_DivisionSisoOnly ==
    [][(last'.op \in DivOps /\ ~(last'.op = "rtruediv" /\ last'.other.kind = "frd"))
       => LET self == objs[last'.self]
              c == _convert_to_frd(last'.other, self, omegaHeap)
              res == objs'[last'.res]
          IN  IF IsScalar(last'.other) THEN last'.status = "ok"
              ELSE IF c.status # "ok" THEN last'.status = c.status /\ last'.res = 0
              ELSE IF IsMIMO(self) \/ IsMIMO(c.frd)
              THEN /\ last'.status = "NotImplementedError"
                   /\ last'.err = "mimo_div"
                   /\ last'.res = 0
                   /\ objs' = objs
              ELSE IF last'.op = "rtruediv" /\ last'.status # "ok"
              THEN /\ last'.status = "NotImplementedError"
                   /\ last'.err = "grid_mismatch"
                   /\ last'.res = 0
                   /\ objs' = objs
              ELSE /\ last'.status = "ok"
                   /\ omegaHeap'[res.omega] = omegaHeap'[self.omega]
                   /\ NOut(res.fresp) = 1 /\ NIn(res.fresp) = 1
                   /\ \A k \in 1..NFreq(self.fresp) :
                          res.fresp[1][1][k] =
                              IF last'.op = "truediv"
                              THEN QDiv(self.fresp[1][1][k], c.frd.fresp[1][1][k])
                              ELSE QDiv(c.frd.fresp[1][1][k], self.fresp[1][1][k])]_vars

\* A SISO FRD divided by a 2x2 matrix has failed as unimplemented.
C13_Witness ==
    /\ last.op = "truediv"
    /\ last.other.kind = "matrix"
    /\ ~IsMIMO(objs[last.self])
    /\ last.err = "mimo_div"

\* The series product of n >= 1 copies of the tensor A.
RECURSIVE PowerOf(_, _)
PowerOf(A, n) ==
    IF n = 1 THEN A
    ELSE LET P == PowerOf(A, n - 1)
         IN  [i \in 1..NOut(A) |-> [j \in 1..NIn(A) |-> [k \in 1..NFreq(A) |->
                 ProductEntry(A, P, i, j, k, NIn(A))]]]

\* C14: for an FRD with as many inputs as outputs (constructed on a strictly
\* ascending omega), frd**0 is the all-ones response of the same shape on the same
\* grid and frd**n, n >= 1, is the series product of n copies of frd.
C14_PowerIsRepeatedProduct ==
    (/\ last.op = "pow"
     /\ last.other.int
     /\ last.other.n >= 0
     /\ objs[last.self].ninputs = objs[last.self].noutputs
     /\ Ascending(born[last.self].omega))
    => /\ last.status = "ok"
       /\ omegaHeap[objs[last.res].omega] = omegaHeap[objs[last.self].omega]
       /\ objs[last.res].fresp =
              IF last.other.n = 0 THEN Ones(objs[last.self])
              ELSE PowerOf(objs[last.self].fresp, last.other.n)

\* The tensor of the inverses of the slices of a square tensor A.
InverseOf(A) ==
    [i \in 1..NOut(A) |-> [j \in 1..NIn(A) |-> [k \in 1..NFreq(A) |->
        LET M == [r \in 1..NOut(A) |-> [c \in 1..NIn(A) |-> A[r][c][k]]]
        IN  MatInv(M)[i][j]]]]

Invertible(A) ==
    \A k \in 1..NFreq(A) :
        Det([r \in 1..NOut(A) |-> [c \in 1..NIn(A) |-> A[r][c][k]]]) # Q(0)

\* C15 as stated: for n < 0, frd**n is the series product of |n| copies of
\* the inverse of frd, for SISO and MIMO alike (here: square, every slice
\* invertible, omega strictly ascending).
C15_NegativePowerOfInverse ==
    (/\ last.op = "pow"
     /\ last.other.int
     /\ last.other.n < 0
     /\ objs[last.self].ninputs = objs[last.self].noutputs
     /\ Invertible(objs[last.self].fresp)
     /\ Ascending(omegaHeap[objs[last.self].omega]))
    => /\ last.status = "ok"
       /\ objs[last.res].fresp = PowerOf(InverseOf(objs[last.self].fresp), -last.other.n)

\* x ** n for a value x and n >= 1.
RECURSIVE QPow(_, _)
QPow(x, n) == IF n = 1 THEN x ELSE QMul(x, QPow(x, n - 1))

\* C15: for n < 0, frd**n on a MIMO frd fails as unimplemented and returns
\* nothing; on a SISO frd whose omega is in ascending order it returns the
\* response (1 / frd.fresp[k]) ** |n| at every k, on the grid of frd; on a
\* SISO frd whose omega is not in ascending order it fails with the
\* grid-mismatch error.
C15_NegativePowerSiso ==
    [][(last'.op = "pow" /\ last'.other.int /\ last'.other.n < 0)
       => LET self == objs[last'.self]
              omega == omegaHeap[self.omega]
              res == objs'[last'.res]
          IN  IF IsMIMO(self)
              THEN last'.status = "NotImplementedError" /\ last'.res = 0 /\ objs' = objs
              ELSE IF NpSort(omega) # omega
              THEN /\ last'.status = "NotImplementedError"
                   /\ last'.err = "grid_mismatch"
                   /\ last'.res = 0
              ELSE /\ last'.status = "ok"
                   /\ omegaHeap'[res.omega] = omega
                   /\ NOut(res.fresp) = 1 /\ NIn(res.fresp) = 1
                   /\ \A k \in 1..Len(omega) :
                          res.fresp[1][1][k] =
                              QPow(QDiv(Q(1), self.fresp[1][1][k]), -last'.other.n)]_vars

\* A SISO FRD raised to the power -2 has returned a result.
C15_Witness ==
    /\ last.op = "pow"
    /\ last.other.int
    /\ last.other.n = -2
    /\ ~IsMIMO(objs[last.self])
    /\ last.status = "ok"

\* C16: frd * c, c * frd and frd / c for a numeric scalar c (non-zero) and
\* an FRD of any shape return a new FRD with fresp scaled elementwise by c
\* (by 1/c), omega equal to the omega of frd, which the call leaves as it
\* was, the counts of frd, and smoothing enabled iff frd has it enabled.
C16_ScalarShortCircuit ==
    [][(last'.op \in {"mul", "rmul", "truediv"} /\ IsScalar(last'.other))
       => LET self == objs[last'.self]
              c == Q(last'.other.val)
              res == objs'[last'.res]
          IN  /\ last'.status = "ok"
              /\ last'.res = Len(objs) + 1
              /\ ~last'.warn
              /\ omegaHeap'[self.omega] = omegaHeap[self.omega]
              /\ omegaHeap'[res.omega] = omegaHeap[self.omega]
              /\ res.smooth = self.smooth
              /\ res.ninputs = self.ninputs /\ res.noutputs = self.noutputs
              /\ NOut(res.fresp) = NOut(self.fresp)
              /\ NIn(res.fresp) = NIn(self.fresp)
              /\ NFreq(res.fresp) = NFreq(self.fresp)
              /\ \A i \in 1..NOut(self.fresp), j \in 1..NIn(self.fresp),
                        k \in 1..NFreq(self.fresp) :
                     res.fresp[i][j][k] =
                         IF last'.op = "truediv" THEN QDiv(self.fresp[i][j][k], c)
                         ELSE QMul(c, self.fresp[i][j][k])]_vars

\* A scalar times a smooth MIMO FRD has returned a smooth FRD.
C16_Witness ==
    /\ last.op = "rmul"
    /\ IsScalar(last.other)
    /\ IsMIMO(objs[last.self])
    /\ objs[last.self].smooth
    /\ last.status = "ok"
    /\ objs[last.res].smooth

\* C17: frd(s) for a scalar or 1-D list s of complex points fails with the
\* purely-imaginary-frequencies error whenever some point of s has a
\* non-zero real part, positive or negative; otherwise its outcome, the
\* returned array or the failure, is that of frd.eval on the imaginary parts.
C17_CallIsEvalOfImag ==
    last.op = "call"
    => LET self == objs[last.self]
           s == last.other
       IN  IF \E k \in 1..Len(s.pts) : s.pts[k][1] # 0
           THEN last.status = "ValueError" /\ last.err = "purely_imaginary"
           ELSE \A cast \in BOOLEAN :
                   LET e == eval(self, [scalar |-> s.scalar,
                                        pts |-> [k \in 1..Len(s.pts) |-> <<s.pts[k][2], 0>>]],
                                 cast, omegaHeap)
                   IN  /\ last.status = e.status
                       /\ last.err = e.err
                       /\ last.out = e.out

\* A call on a non-smooth FRD with a list of two purely imaginary points
\* has returned the two slices eval returns.
C17_Witness ==
    /\ last.op = "call"
    /\ ~objs[last.self].smooth
    /\ Len(last.other.pts) = 2
    /\ \A k \in 1..2 : last.other.pts[k][1] = 0
    /\ last.status = "ok"
    /\ NFreq(last.out) = 2

\* The length of the last axis of an array argument of 1 or 3 dimensions.
LastAxis(a) == IF a.ndim = 3 THEN NFreq(a.data) ELSE Len(a.data)

\* The call that ended with `last'` has raised exception exc and has left
\* the session without a new object.
Refused(exc) == last'.status = exc /\ last'.res = 0 /\ objs' = objs

\* C18 as stated: construction fails, returning no object, with ValueError
\* for zero or more than two positional arguments; with TypeError for a
\* single argument that is not an FRD; with TypeError for a response array
\* that is neither 1-D nor 3-D, a frequency vector that is not 1-D, or a
\* response whose last axis differs in length from the frequency vector;
\* with TypeError for an unrecognized keyword.
C18_ConstructionFails ==
    [][last'.op = "init_args"
       => LET a == last'.other.args
          IN  /\ Len(a) \notin {1, 2} => Refused("ValueError")
              /\ (Len(a) = 1 /\ a[1].kind # "frd") => Refused("TypeError")
              /\ (/\ Len(a) = 2
                  /\ a[1].kind = "array"
                  /\ \/ a[1].ndim \notin {1, 3}
                     \/ a[2].ndim # 1
                     \/ LastAxis(a[1]) # Len(a[2].data))
                 => Refused("TypeError")
              /\ (Len(a) \in {1, 2} /\ last'.other.unknown) => Refused("TypeError")]_vars

\* C18: as stated, except that a scalar response and a scalar frequency are
\* taken as 1-D arrays of one element: the refused response arrays are those
\* of two dimensions (or more than three), the refused frequency arguments
\* those of more than one dimension.
C18_ConstructionFailsAfterPromotion ==
    [][last'.op = "init_args"
       => LET a == last'.other.args
          IN  /\ Len(a) \notin {1, 2} => Refused("ValueError")
              /\ (Len(a) = 1 /\ a[1].kind # "frd") => Refused("TypeError")
              /\ (/\ Len(a) = 2
                  /\ a[1].kind = "array"
                  /\ \/ a[1].ndim \notin {0, 1, 3}
                     \/ a[2].ndim > 1
                     \/ (IF a[1].ndim = 0 THEN 1 ELSE LastAxis(a[1]))
                            # (IF a[2].ndim = 0 THEN 1 ELSE Len(a[2].data)))
                 => Refused("TypeError")
              /\ (Len(a) \in {1, 2} /\ last'.other.unknown) => Refused("TypeError")]_vars

\* A 3-D response given with a 2-D frequency array has been refused.
C18_Witness ==
    /\ last.op = "init_args"
    /\ Len(last.other.args) = 2
    /\ last.other.args[1].kind = "array"
    /\ last.other.args[1].ndim = 3
    /\ last.other.args[2].ndim = 2
    /\ last.status = "TypeError"
    /\ last.err = "bad_shape"

\* Whether two timebases can be reconciled to one common value.
Compatible(dt1, dt2) == dt1 = None \/ dt2 = None \/ dt1 = dt2

\* C19: add, subtract, multiply, divide and feedback of two FRDs whose dt
\* values cannot be reconciled to one common value fail instead of
\* returning a result.
C19_IncompatibleTimebasesFail ==
    (/\ last.op \in {"add", "sub", "mul", "truediv", "feedback"}
     /\ IsFRD(last.other)
     /\ ~Compatible(objs[last.self].dt, objs[last.other.ref].dt))
    => last.status # "ok"

\* Whether two frequency vectors differ in length or in some element.
Differ(a, b) == Len(a) # Len(b) \/ \E k \in 1..Len(a) : a[k] # b[k]

\* C20: add, subtract, multiply and divide of two FRDs whose frequency
\* vectors differ at all emit the frequency-points-do-not-match warning,
\* whether the operation then fails or returns a result.
C20_WarningOnDifferingGrids ==
    [][(/\ last'.op \in {"add", "sub", "mul", "truediv"}
        /\ last'.other.kind = "frd"
        /\ Differ(omegaHeap[objs[last'.self].omega],
                  omegaHeap[objs[last'.other.ref].omega]))
       => last'.warn]_vars

\* C21: the FRD returned by the copy constructor or by an operator shares no
\* storage with another FRD: no call changes what is read from the omega or
\* fresp of an FRD other than the one it is called on.
C21_NoSharedStorage ==
    [][\A a \in 1..Len(objs) :
          a # last'.self
          => /\ omegaHeap'[objs'[a].omega] = omegaHeap[objs[a].omega]
             /\ objs'[a].fresp = objs[a].fresp]_vars

\* The names of the items of the tuple of an FRD, by return_magphase.
TupleNames(return_magphase) ==
    IF return_magphase THEN <<"magnitude", "phase", "omega">> ELSE <<"omega", "response">>

\* What tuple(frd), len(frd) and frd[index] have returned is the tuple named
\* by TupleNames: iteration yields its items in order, with omega as stored,
\* len is their number, and frd[i] is the i-th item iteration yields, for
\* every i from 0 to len - 1.
TupleAgrees ==
    LET self == objs[last.self]
        names == TupleNames(self.return_magphase)
        items == __iter__(self, omegaHeap)
    IN  /\ last.op = "iter"
           => /\ Len(last.out) = Len(names)
              /\ \A k \in 1..Len(names) :
                     /\ last.out[k].item = names[k]
                     /\ names[k] = "omega"
                        => last.out[k].val = [ndim |-> 1, data |-> omegaHeap[self.omega]]
                     /\ names[k] # "omega" => last.out[k].val.data = self.fresp
        /\ last.op = "len" => last.out[1].val = Len(names) /\ Len(items) = Len(names)
        /\ (last.op = "getitem" /\ last.other.val \in 0..(Len(names) - 1))
           => /\ last.status = "ok"
              /\ last.out[1].item = names[last.other.val + 1]
              /\ last.out[1].item = items[last.other.val + 1].item
              /\ last.out[1].val = items[last.other.val + 1].val

\* C22 as stated: for every FRD, iteration yields exactly len(frd) items,
\* (omega, response) when return_magphase is false and (magnitude, phase,
\* omega) when it is true, and frd[i] is the i-th of them.
C22_TupleOfEveryFRD ==
    last.op \in {"iter", "len", "getitem"} => TupleAgrees

\* C22: as stated, for every FRD whose _return_singvals is not set.
C22_TupleUnlessSingvals ==
    (last.op \in {"iter", "len", "getitem"} /\ ~objs[last.self]._return_singvals)
    => TupleAgrees

\* frd[2] of an FRD with return_magphase set has returned omega.
C22_Witness ==
    /\ last.op = "getitem"
    /\ last.other.val = 2
    /\ objs[last.self].return_magphase
    /\ ~objs[last.self]._return_singvals
    /\ last.status = "ok"
    /\ last.out[1].item = "omega"

\* C23: frd(squeeze=..., return_magphase=...) without a point argument
\* returns a new object whose squeeze and return_magphase are the values
\* passed, each being that of frd when it is not passed, and whose omega and
\* fresp equal those of frd; frd keeps its squeeze and return_magphase.
C23_CallWithoutArgument ==
    [][last'.op = "call_none"
       => LET self == objs[last'.self]
              res == objs'[last'.res]
              kw == last'.other
          IN  /\ last'.status = "ok"
              /\ last'.res = Len(objs) + 1
              /\ Len(objs') = Len(objs) + 1
              /\ res.squeeze = IF kw.squeeze = "None" THEN self.squeeze ELSE kw.squeeze
              /\ res.return_magphase = IF kw.return_magphase.given
                                       THEN kw.return_magphase.val
                                       ELSE self.return_magphase
              /\ omegaHeap'[res.omega] = omegaHeap[self.omega]
              /\ res.fresp = self.fresp
              /\ objs'[last'.self] = self
              /\ omegaHeap'[self.omega] = omegaHeap[self.omega]]_vars

\* A call passing squeeze alone has returned an FRD with that squeeze and
\* the return_magphase of the original, which keeps its own squeeze.
C23_Witness ==
    /\ last.op = "call_none"
    /\ last.other.squeeze = "True"
    /\ ~last.other.return_magphase.given
    /\ objs[last.self].squeeze = "False"
    /\ objs[last.self].return_magphase
    /\ objs[last.res].squeeze = "True"
    /\ objs[last.res].return_magphase

\* Whether the FRD o is the analytic model A sampled on its omega.
IsSampleOf(o, A) ==
    /\ NOut(o.fresp) = 1 /\ NIn(o.fresp) = 1
    /\ NFreq(o.fresp) = Len(omegaHeap[o.omega])
    /\ \A k \in 1..NFreq(o.fresp) :
           o.fresp[1][1][k] = LtiResp(A, omegaHeap[o.omega][k])

\* a op b for two numbers, op the operator of a call in either operand order.
Value(op, a, b) ==
    CASE op \in {"add", "radd"} -> QAdd(a, b)
      [] op = "sub" -> QAdd(a, QNeg(b))
      [] op = "rsub" -> QAdd(b, QNeg(a))
      [] op \in {"mul", "rmul"} -> QMul(a, b)
      [] op = "truediv" -> QDiv(a, b)
      [] op = "rtruediv" -> QDiv(b, a)

\* The call that ended with `last` has returned the FRD that holds, at the
\* k-th frequency of self, Value(op, A(j w_k), b[k]).
Commutes(A, b) ==
    /\ last.status = "ok"
    /\ NFreq(objs[last.res].fresp) = NFreq(objs[last.self].fresp)
    /\ \A k \in 1..NFreq(objs[last.self].fresp) :
           objs[last.res].fresp[1][1][k] =
               Value(last.op, LtiResp(A, omegaHeap[objs[last.self].omega][k]), b[k])

\* C24: for SISO analytic models A and B sampled on the same grid, FRD(A)
\* op FRD(B), op one of + - * /, holds at every grid frequency the value of
\* A op B there; so do FRD(A) op c and c op FRD(A) for a number c, and
\* FRD(A) op B for the analytic model B itself.
C24_SamplingCommutes ==
    \A A \in LTIs :
        (last.op \in {"add", "radd", "sub", "rsub", "mul", "rmul", "truediv", "rtruediv"}
         /\ IsSampleOf(objs[last.self], A))
        => LET omega == omegaHeap[objs[last.self].omega]
           IN  /\ (last.other.kind = "scalar")
                  => Commutes(A, [k \in 1..Len(omega) |-> Q(last.other.val)])
               /\ (last.other.kind = "lti"
                      /\ last.op \in {"add", "sub", "mul", "truediv"})
                  => Commutes(A, [k \in 1..Len(omega) |-> LtiResp(last.other.val, omega[k])])
               /\ (last.other.kind = "frd"
                      /\ last.op \in {"add", "sub", "mul", "truediv"})
                  => \A B \in LTIs :
                        (IsSampleOf(objs[last.other.ref], B)
                         /\ omegaHeap[objs[last.other.ref].omega] = omega)
                        => Commutes(A, [k \in 1..Len(omega) |-> LtiResp(B, omega[k])])

\* C25: pole_zero_plot with grid=True on a list of systems that mixes a
\* continuous-time system (dt 0 or None) with a discrete-time one (dt > 0)
\* raises ValueError.
C25_MixedTimebasesRaiseValueError ==
    (/\ last.op = "pole_zero_plot"
     /\ last.other.grid
     /\ last.other.plot # "False"
     /\ \A k \in 1..Len(last.other.data) : last.other.data[k].kind = "sys"
     /\ \E k \in 1..Len(last.other.data) : last.other.data[k].dt \in {0, None}
     /\ \E k \in 1..Len(last.other.data) : last.other.data[k].dt > 0)
    => last.status = "ValueError"

\* C26: _convert_to_frd on a target grid omega turns a number c into the FRD
\* of shape (outputs, inputs, len(omega)) with every entry c, and a 2-D
\* array M into the FRD with fresp[i, j, k] = M[i, j]; both are
\* smoothing-enabled and have omega as their grid; any other operand fails
\* with the TypeError that names its type.
C26_ConstantsAreCoerced ==
    last.op = "convert"
    => LET a == last.other
           F == Len(a.omega)
       IN  IF a.sys.kind \in {"scalar", "matrix"}
           THEN /\ last.status = "ok"
                /\ objs[last.res].smooth
                /\ omegaHeap[objs[last.res].omega] = a.omega
                /\ LET T == objs[last.res].fresp
                       no == IF a.sys.kind = "scalar" THEN a.outputs ELSE Len(a.sys.val)
                       ni == IF a.sys.kind = "scalar" THEN a.inputs ELSE Len(a.sys.val[1])
                   IN  /\ NOut(T) = no /\ NIn(T) = ni /\ NFreq(T) = F
                       /\ \A i \in 1..no, j \in 1..ni, k \in 1..F :
                              T[i][j][k] = IF a.sys.kind = "scalar" THEN Q(a.sys.val)
                                           ELSE Q(a.sys.val[i][j])
           ELSE last.status = "TypeError" /\ last.err = "cant_convert"

\* C27: the FRD returned by a successful add, subtract, multiply, divide or
\* feedback with the FRD a as left operand has an omega equal, element by
\* element, to that of a.
C27_ResultOnLeftOperandGrid ==
    (last.op \in {"add", "sub", "mul", "truediv", "feedback"} /\ last.status = "ok")
    => omegaHeap[objs[last.res].omega] = omegaHeap[objs[last.self].omega]

\* C28 as stated: frd**n with an exponent whose type is not int fails with
\* ValueError without a nested power call; with an integer n it makes
\* exactly |n| nested power calls, the innermost with exponent 0.
C28_PowerRecursesToZero ==
    last.op = "pow"
    => IF ~last.other.int
       THEN last.status = "ValueError" /\ last.other.calls = 0 /\ ~last.other.base
       ELSE last.other.calls = Abs(last.other.n) /\ last.other.base

\* C28: as stated for n >= 0, and for n < 0 when the inverse 1 / frd can be
\* formed (frd is SISO and its omega is in ascending order); when it cannot,
\* frd**n for n < 0 fails on forming the inverse, without a nested power
\* call.
C28_PowerRecursesUnlessInverseFails ==
    [][last'.op = "pow"
       => LET e == last'.other
              self == objs[last'.self]
              w == omegaHeap[self.omega]
          IN  IF ~e.int
              THEN last'.status = "ValueError" /\ e.calls = 0 /\ ~e.base
              ELSE IF e.n >= 0 \/ (~IsMIMO(self) /\ NpSort(w) = w)
              THEN e.calls = Abs(e.n) /\ e.base
              ELSE /\ e.calls = 0 /\ ~e.base
                   /\ last'.status = "NotImplementedError"]_vars

\* frd**2 has failed in its multiplications (frd is not square) after two
\* nested power calls down to the exponent 0.
C28_Witness ==
    /\ last.op = "pow"
    /\ last.other.int
    /\ last.other.n = 2
    /\ last.status = "ValueError"
    /\ last.other.calls = 2
    /\ last.other.base

\* Whether the operand of the call that ended with `last`, once coerced, has
\* smoothing enabled: an FRD has its own flag, anything else is coerced
\* into a smoothing-enabled FRD.
CoercedSmooth ==
    IF last.other.kind = "frd" THEN objs[last.other.ref].smooth ELSE TRUE

\* C29: the FRD returned by negation, addition and subtraction has
\* smoothing disabled whatever the operands; that of a multiply or divide
\* with an operand other than a number has it enabled iff both self and the
\* coerced operand have; that of feedback iff self has.
C29_SmoothingPropagation ==
    last.status = "ok"
    => /\ last.op \in {"neg", "add", "sub"} => ~objs[last.res].smooth
       /\ (last.op \in {"mul", "rmul", "truediv", "rtruediv"}
              /\ last.other.kind # "scalar")
          => (objs[last.res].smooth <=> (objs[last.self].smooth /\ CoercedSmooth))
       /\ last.op = "feedback" => (objs[last.res].smooth <=> objs[last.self].smooth)

\* The feedback of a smoothing-enabled FRD around an FRD without smoothing
\* has returned a smoothing-enabled FRD.
C29_Witness ==
    /\ last.op = "feedback"
    /\ last.status = "ok"
    /\ last.other.kind = "frd"
    /\ objs[last.self].smooth
    /\ ~objs[last.other.ref].smooth
    /\ objs[last.res].smooth

\* C30: the FRD returned by negation, by a multiply or divide by a number,
\* and by add, multiply, divide or feedback with an FRD of the same dt,
\* has the dt of self.
C30_TimebasePreserved ==
    (/\ last.status = "ok"
     /\ \/ last.op = "neg"
        \/ last.op \in {"mul", "truediv"} /\ last.other.kind = "scalar"
        \/ /\ last.op \in {"add", "mul", "truediv", "feedback"}
           /\ last.other.kind = "frd"
           /\ objs[last.other.ref].dt = objs[last.self].dt)
    => objs[last.res].dt = objs[last.self].dt

====
